---- MODULE Spec2Model ----
(***************************************************************************)
(* A model of whisper-rs' WhisperContext (src/src/whisper_ctx.rs): the     *)
(* safe wrapper around one native whisper.cpp context.  The model keeps    *)
(* the wrapper's own state (the handle and the three gate flags of every   *)
(* context), the engine-side bookkeeping the wrapper relies on (which      *)
(* handles are allocated), and a record of the last call: what was asked,  *)
(* which native function was invoked, what it returned and what the        *)
(* wrapper answered.  The native engine is opaque: every value it returns  *)
(* is a nondeterministic choice from a small set of c_int values.          *)
(***************************************************************************)
EXTENDS Integers, Sequences, FiniteSets, TLC

(***************************************************************************)
(* Bounds of the model.                                                    *)
(***************************************************************************)
\* number of WhisperContext values the application may hold at a time
MaxContexts == 1
\* thread counts range over 0 .. MaxThreads (usize: never negative)
MaxThreads == 1
\* the engine's status codes range over -2 .. MaxRet: the failure sentinel
\* -1, one other negative code, success 0 and the positive codes
MaxRet == 2
\* frame / millisecond offsets range over 0 .. MaxOffset
MaxOffset == 1
\* segment, token and token-id arguments range over 0 .. MaxIndex
MaxIndex == 0
\* tokenize's max_tokens ranges over 0 .. MaxTokensArg
MaxTokensArg == 1
\* the value whisper_lang_max_id() reports (an engine constant)
MaxLangId == 1
\* the engine's n_vocab ranges over 0 .. MaxVocab
MaxVocab == 2
\* the engine's per-segment token count ranges over -1 .. MaxSegTokens
MaxSegTokens == 2
\* full_parallel's n_processors ranges over 1 .. MaxProcessors
MaxProcessors == 2

\* an audio input has at most MaxSamples samples
MaxSamples == 3

\* the shared context is called from MaxTasks tasks
MaxTasks == 2

\* the engine's performance statistics count 0 .. MaxStats
MaxStats == 1

Slots == 1 .. MaxContexts
NULL == 0
\* the addresses the engine may hand out
Handles == 1 .. MaxContexts
Threads == 0 .. MaxThreads
Offsets == 0 .. MaxOffset
Indices == 0 .. MaxIndex
Rets == (0 - 2) .. MaxRet
\* the engine values the scalar getters see: zero and a non-zero value
GetterRets == {0, 1}

(***************************************************************************)
(* `x as usize` for a c_int x on a 64-bit target: sign extension to 64     *)
(* bits.  A usize is kept as four 16-bit limbs, most significant first.    *)
(***************************************************************************)
Limb == 65536

AsUsize(x) ==
    <<IF x < 0 THEN Limb - 1 ELSE 0,
      IF x < 0 THEN Limb - 1 ELSE 0,
      (x \div Limb) % Limb,
      x % Limb>>

RECURSIVE UsizeLeqFrom(_, _, _)
UsizeLeqFrom(a, b, i) ==
    IF i > 4 THEN TRUE
    ELSE IF a[i] < b[i] THEN TRUE
    ELSE IF a[i] > b[i] THEN FALSE
    ELSE UsizeLeqFrom(a, b, i + 1)

UsizeLeq(a, b) == UsizeLeqFrom(a, b, 1)

(***************************************************************************)
(* Result<_, WhisperError> and the fatal outcomes.                         *)
(***************************************************************************)
Ok == [kind |-> "Ok", err |-> "", code |-> 0]
Err(e) == [kind |-> "Err", err |-> e, code |-> 0]
GenericError(r) == [kind |-> "Err", err |-> "GenericError", code |-> r]
Fatal(how) == [kind |-> "Fatal", err |-> how, code |-> 0]
NoResult == [kind |-> "none", err |-> "", code |-> 0]

(***************************************************************************)
(* State.                                                                  *)
(***************************************************************************)
VARIABLES
    ctxs,       \* slot -> the WhisperContext value held there
    allocated,  \* engine side: the handles that are initialised and not freed
    freed,      \* slot -> whisper_free calls made for the slot's latest context
    misuse,     \* engine side: a call was made with a handle not allocated
    melOk,      \* history: slot -> its context has had pcm_to_mel/set_mel return Ok
    encOk,      \* history: slot -> its context has had encode return Ok
    call,       \* the last call and its outcome
    running,    \* FALSE once a call has panicked or aborted
    runs,       \* one input run through full and through full_parallel
    borrows,    \* the method calls in progress on one shared context
    twins       \* two contexts given the same calls and engine responses

vars ==
    <<ctxs, allocated, freed, misuse, melOk, encOk, call, running, runs,
      borrows, twins>>

Unborn ==
    [status |-> "unborn", ctx |-> NULL, spectrogram_initialized |-> FALSE,
     encode_complete |-> FALSE, decode_once |-> FALSE]

\* a slot whose value has been dropped: nothing of it can be named again
Dropped ==
    [status |-> "dropped", ctx |-> NULL, spectrogram_initialized |-> FALSE,
     encode_complete |-> FALSE, decode_once |-> FALSE]

\* the three gate flags of a context value
Flags(self) ==
    [spectrogram_initialized |-> self.spectrogram_initialized,
     encode_complete |-> self.encode_complete,
     decode_once |-> self.decode_once]

NoFlags ==
    [spectrogram_initialized |-> FALSE, encode_complete |-> FALSE,
     decode_once |-> FALSE]

\* the gate of spec section 4.2, read off the flags
Gate(f) ==
    IF f.decode_once THEN "Decoded"
    ELSE IF f.encode_complete THEN "Encoded"
    ELSE IF f.spectrogram_initialized THEN "SpectrogramReady"
    ELSE "Fresh"

NoCall ==
    [op |-> "none", slot |-> 0, threads |-> 0, arg |-> 0, fn |-> "none",
     ret |-> 0, result |-> NoResult, pre |-> NoFlags, len |-> AsUsize(0),
     value |-> <<>>, out |-> <<>>]

\* no run of the pipeline made yet
NoOutcome == [result |-> NoResult, n_segments |-> <<>>, text |-> <<>>]

NoRuns ==
    [audio |-> <<>>, n_processors |-> 1, status |-> 0, other |-> 0,
     skipped |-> {}, full |-> NoOutcome, full_parallel |-> NoOutcome]

\* the tasks that hold a reference to the shared context
Tasks == 1 .. MaxTasks

\* a fresh context that no task is calling
NoBorrows ==
    [self |-> NoFlags, stats |-> 0, busy |-> [t \in Tasks |-> "idle"]]

\* what a call answers: whether it reached the engine, and its result
NoAnswer == [forwarded |-> FALSE, result |-> NoResult]

\* two fresh contexts, no call made on them
NoTwins ==
    [a |-> NoFlags, b |-> NoFlags, op |-> "none", threads |-> 0,
     response |-> 0, a_answer |-> NoAnswer, b_answer |-> NoAnswer]

\* no context made, no call made
InitContexts ==
    /\ ctxs = [c \in Slots |-> Unborn]
    /\ allocated = {}
    /\ freed = [c \in Slots |-> 0]
    /\ misuse = FALSE
    /\ melOk = [c \in Slots |-> FALSE]
    /\ encOk = [c \in Slots |-> FALSE]
    /\ call = NoCall
    /\ running = TRUE

Init ==
    /\ InitContexts
    /\ runs = NoRuns
    /\ borrows = NoBorrows
    /\ twins = NoTwins

Live(c) == running /\ ctxs[c].status = "live"

\* a slot that holds no context: never filled, or its value was dropped
Vacant(c) == running /\ ctxs[c].status \in {"unborn", "dropped"}

(***************************************************************************)
(* Construction and destruction.                                           *)
(***************************************************************************)
\* WhisperContext::new, lines 35-44: a null handle is InitError, anything
\* else becomes the context's handle with all flags false
new_result(ctx) ==
    IF ctx = NULL THEN Err("InitError") ELSE Ok

new_value(ctx) ==
    [status |-> "live", ctx |-> ctx, spectrogram_initialized |-> FALSE,
     encode_complete |-> FALSE, decode_once |-> FALSE]

\* what a constructor leaves in the slot: a context only on Ok
Constructed(c, ctx, result) ==
    IF result.kind = "Ok" THEN [ctxs EXCEPT ![c] = new_value(ctx)] ELSE ctxs

\* the bookkeeping of a slot starts afresh with each context made in it
Born(c, result) ==
    IF result.kind = "Ok"
    THEN /\ freed' = [freed EXCEPT ![c] = 0]
         /\ melOk' = [melOk EXCEPT ![c] = FALSE]
         /\ encOk' = [encOk EXCEPT ![c] = FALSE]
    ELSE UNCHANGED <<freed, melOk, encOk>>

\* WhisperContext::new(path).  CString::new fails on an interior NUL byte
\* and `?` returns the converted error before the engine is called.
New(c, pathHasNul, h) ==
    /\ Vacant(c)
    /\ IF pathHasNul
       THEN /\ call' = [NoCall EXCEPT !.op = "new", !.slot = c,
                                      !.result = Err("NulError")]
            /\ UNCHANGED <<ctxs, allocated, freed, melOk, encOk>>
       ELSE /\ call' = [NoCall EXCEPT !.op = "new", !.slot = c,
                                      !.fn = "whisper_init_from_file",
                                      !.ret = h, !.result = new_result(h)]
            /\ ctxs' = Constructed(c, h, new_result(h))
            /\ allocated' = IF h = NULL THEN allocated ELSE allocated \cup {h}
            /\ Born(c, new_result(h))
    /\ UNCHANGED <<misuse, running, runs, borrows, twins>>

\* WhisperContext::new_from_buffer(buffer)
NewFromBuffer(c, h) ==
    /\ Vacant(c)
    /\ call' = [NoCall EXCEPT !.op = "new_from_buffer", !.slot = c,
                              !.fn = "whisper_init_from_buffer",
                              !.ret = h, !.result = new_result(h)]
    /\ ctxs' = Constructed(c, h, new_result(h))
    /\ allocated' = IF h = NULL THEN allocated ELSE allocated \cup {h}
    /\ Born(c, new_result(h))
    /\ UNCHANGED <<misuse, running, runs, borrows, twins>>

\* drop freeing the handle twice
drop_calls_twice(ctx) == <<ctx, ctx>>

\* the native calls Drop::drop makes for a handle, line 729
drop_calls(ctx) == <<ctx>>

\* Drop for WhisperContext: the owner gives the value up, once (ownership),
\* and drop frees the handle
Drop(c) ==
    /\ Live(c)
    /\ LET frees == drop_calls(ctxs[c].ctx) IN
       /\ call' = [NoCall EXCEPT !.op = "drop", !.slot = c,
                                 !.fn = IF Len(frees) > 0 THEN "whisper_free"
                                        ELSE "none",
                                 !.pre = Flags(ctxs[c])]
       /\ freed' = [freed EXCEPT ![c] = @ + Len(frees)]
       /\ misuse' = (misuse \/ \E i \in 1 .. Len(frees) :
                                  frees[i] \notin allocated)
       /\ allocated' = allocated \ {frees[i] : i \in 1 .. Len(frees)}
    /\ ctxs' = [ctxs EXCEPT ![c] = Dropped]
    /\ UNCHANGED <<melOk, encOk, running, runs, borrows, twins>>

(***************************************************************************)
(* The common tail of every method call on a live context: record the      *)
(* call, install the flags the method left, note an engine call made with  *)
(* a handle that is not allocated, and stop if the call was fatal.         *)
(* `out` is what the engine handed back besides its status or pointer.     *)
(***************************************************************************)
ReturnOut(c, op, threads, arg, fn, ret, result, flags, len, value, out) ==
    /\ call' = [op |-> op, slot |-> c, threads |-> threads, arg |-> arg,
                fn |-> fn, ret |-> IF fn = "none" THEN 0 ELSE ret,
                result |-> result, pre |-> Flags(ctxs[c]), len |-> len,
                value |-> value, out |-> out]
    /\ ctxs' = [ctxs EXCEPT
                   ![c].spectrogram_initialized = flags.spectrogram_initialized,
                   ![c].encode_complete = flags.encode_complete,
                   ![c].decode_once = flags.decode_once]
    /\ misuse' = (misuse \/ (fn # "none" /\ ctxs[c].ctx \notin allocated))
    /\ running' = (result.kind # "Fatal")
    /\ UNCHANGED <<allocated, freed, runs, borrows, twins>>

Return(c, op, threads, arg, fn, ret, result, flags, len, value) ==
    ReturnOut(c, op, threads, arg, fn, ret, result, flags, len, value, <<>>)

(***************************************************************************)
(* Stage operations.                                                       *)
(***************************************************************************)
\* pcm_to_mel, lines 87-89: the check made before the native call
pcm_to_mel_check(self, threads) ==
    IF threads < 1 THEN Err("InvalidThreadCount") ELSE Ok

\* pcm_to_mel, lines 98-105: the classification of the status
pcm_to_mel_result(ret) ==
    IF ret = -1 THEN Err("UnableToCalculateSpectrogram")
    ELSE IF ret = 0 THEN Ok
    ELSE GenericError(ret)

\* pcm_to_mel writing its flag whatever the status
pcm_to_mel_flags_always(self, ret) ==
    [Flags(self) EXCEPT !.spectrogram_initialized = TRUE]

\* pcm_to_mel, line 101: the flag written on the 0 branch
pcm_to_mel_flags(self, ret) ==
    IF ret = -1 THEN Flags(self)
    ELSE IF ret = 0 THEN [Flags(self) EXCEPT !.spectrogram_initialized = TRUE]
    ELSE Flags(self)

PcmToMel(c, threads) ==
    /\ Live(c)
    /\ LET self == ctxs[c]
           pre == pcm_to_mel_check(self, threads)
       IN IF pre.kind # "Ok"
          THEN /\ Return(c, "pcm_to_mel", threads, 0, "none", 0, pre,
                         Flags(self), AsUsize(0), <<>>)
               /\ UNCHANGED melOk
          ELSE \E ret \in Rets :
               /\ Return(c, "pcm_to_mel", threads, 0, "whisper_pcm_to_mel",
                         ret, pcm_to_mel_result(ret),
                         pcm_to_mel_flags(self, ret), AsUsize(0), <<>>)
               /\ melOk' = [melOk EXCEPT
                               ![c] = @ \/ pcm_to_mel_result(ret).kind = "Ok"]
    /\ UNCHANGED encOk

\* set_mel reporting every failure as InvalidMelBands
set_mel_result_collapsed(ret) ==
    IF ret = 0 THEN Ok ELSE Err("InvalidMelBands")

\* set_mel, lines 133-140
set_mel_result(ret) ==
    IF ret = -1 THEN Err("InvalidMelBands")
    ELSE IF ret = 0 THEN Ok
    ELSE GenericError(ret)

\* set_mel withdrawing the stages computed from the spectrogram it replaces
set_mel_flags_revoking(self, ret) ==
    IF ret = 0
    THEN [spectrogram_initialized |-> TRUE, encode_complete |-> FALSE,
          decode_once |-> FALSE]
    ELSE Flags(self)

\* set_mel, line 136
set_mel_flags(self, ret) ==
    IF ret = -1 THEN Flags(self)
    ELSE IF ret = 0 THEN [Flags(self) EXCEPT !.spectrogram_initialized = TRUE]
    ELSE Flags(self)

SetMel(c) ==
    /\ Live(c)
    /\ \E ret \in Rets :
          /\ Return(c, "set_mel", 0, 0, "whisper_set_mel", ret,
                    set_mel_result(ret), set_mel_flags(ctxs[c], ret),
                    AsUsize(0), <<>>)
          /\ melOk' = [melOk EXCEPT
                          ![c] = @ \/ set_mel_result(ret).kind = "Ok"]
    /\ UNCHANGED encOk

\* encode without its gate check
encode_check_nogate(self, threads) ==
    IF threads < 1 THEN Err("InvalidThreadCount") ELSE Ok

\* encode testing the thread count before the gate
encode_check_threads_first(self, threads) ==
    IF threads < 1 THEN Err("InvalidThreadCount")
    ELSE IF ~self.spectrogram_initialized THEN Err("SpectrogramNotInitialized")
    ELSE Ok

\* encode, lines 156-161: gate first, thread count second
encode_check(self, threads) ==
    IF ~self.spectrogram_initialized THEN Err("SpectrogramNotInitialized")
    ELSE IF threads < 1 THEN Err("InvalidThreadCount")
    ELSE Ok

\* encode, lines 164-171
encode_result(ret) ==
    IF ret = -1 THEN Err("UnableToCalculateEvaluation")
    ELSE IF ret = 0 THEN Ok
    ELSE GenericError(ret)

\* encode withdrawing encode_complete when the engine fails
encode_flags_reset(self, ret) ==
    IF ret = 0 THEN [Flags(self) EXCEPT !.encode_complete = TRUE]
    ELSE [Flags(self) EXCEPT !.encode_complete = FALSE]

\* encode, line 167
encode_flags(self, ret) ==
    IF ret = -1 THEN Flags(self)
    ELSE IF ret = 0 THEN [Flags(self) EXCEPT !.encode_complete = TRUE]
    ELSE Flags(self)

Encode(c, offset, threads) ==
    /\ Live(c)
    /\ LET self == ctxs[c]
           pre == encode_check(self, threads)
       IN IF pre.kind # "Ok"
          THEN /\ Return(c, "encode", threads, offset, "none", 0, pre,
                         Flags(self), AsUsize(0), <<>>)
               /\ UNCHANGED encOk
          ELSE \E ret \in Rets :
               /\ Return(c, "encode", threads, offset, "whisper_encode",
                         ret, encode_result(ret), encode_flags(self, ret),
                         AsUsize(0), <<>>)
               /\ encOk' = [encOk EXCEPT
                               ![c] = @ \/ encode_result(ret).kind = "Ok"]
    /\ UNCHANGED melOk

\* decode gated on the spectrogram instead of on the encode
decode_check_wrong_gate(self, threads) ==
    IF ~self.spectrogram_initialized THEN Err("EncodeNotComplete")
    ELSE IF threads < 1 THEN Err("InvalidThreadCount")
    ELSE Ok

\* decode without its gate check
decode_check_nogate(self, threads) ==
    IF threads < 1 THEN Err("InvalidThreadCount") ELSE Ok

\* decode refusing a second decode
decode_check_single(self, threads) ==
    IF ~self.encode_complete \/ self.decode_once THEN Err("EncodeNotComplete")
    ELSE IF threads < 1 THEN Err("InvalidThreadCount")
    ELSE Ok

\* decode, lines 195-200
decode_check(self, threads) ==
    IF ~self.encode_complete THEN Err("EncodeNotComplete")
    ELSE IF threads < 1 THEN Err("InvalidThreadCount")
    ELSE Ok

\* decode, lines 210-217
decode_result(ret) ==
    IF ret = -1 THEN Err("UnableToCalculateEvaluation")
    ELSE IF ret = 0 THEN Ok
    ELSE GenericError(ret)

\* decode, line 213
decode_flags(self, ret) ==
    IF ret = -1 THEN Flags(self)
    ELSE IF ret = 0 THEN [Flags(self) EXCEPT !.decode_once = TRUE]
    ELSE Flags(self)

\* n_tokens is tokens.len(), the argument passed beside n_past
Decode(c, n_tokens, threads) ==
    /\ Live(c)
    /\ LET self == ctxs[c]
           pre == decode_check(self, threads)
       IN IF pre.kind # "Ok"
          THEN Return(c, "decode", threads, n_tokens, "none", 0, pre,
                      Flags(self), AsUsize(0), <<>>)
          ELSE \E ret \in Rets :
               Return(c, "decode", threads, n_tokens, "whisper_decode",
                      ret, decode_result(ret), decode_flags(self, ret),
                      AsUsize(0), <<>>)
    /\ UNCHANGED <<melOk, encOk>>

(***************************************************************************)
(* Tokenize.                                                               *)
(***************************************************************************)
\* tokenize, line 236: Vec::with_capacity(max_tokens)
tokenize_capacity(max_tokens) == max_tokens

\* tokenize taking every negative status for InvalidText
tokenize_result_negative(ret) ==
    IF ret < 0 THEN Err("InvalidText") ELSE Ok

\* tokenize, lines 245-251: -1 is InvalidText, every other status is taken
\* as a token count
tokenize_result(ret) ==
    IF ret = -1 THEN Err("InvalidText") ELSE Ok

\* tokenize, line 249: the length given to Vec::set_len
tokenize_len(ret) == AsUsize(ret)

\* Vec::set_len's safety requirement: new_len <= capacity().  When it does
\* not hold the call is undefined behaviour: an unchecked build returns the
\* over-long vector, a build with the precondition check compiled in stops.
tokenize_outcomes(ret, max_tokens) ==
    IF ret = -1 THEN {tokenize_result(ret)}
    ELSE IF UsizeLeq(tokenize_len(ret), AsUsize(tokenize_capacity(max_tokens)))
    THEN {tokenize_result(ret)}
    ELSE {tokenize_result(ret), Fatal("set_len beyond capacity")}

\* tokenize(text, max_tokens): the text goes to the engine as it is, and what
\* the engine makes of it is the status it returns
Tokenize(c, max_tokens) ==
    /\ Live(c)
    /\ \E ret \in Rets :
       \E result \in tokenize_outcomes(ret, max_tokens) :
          Return(c, "tokenize", 0, max_tokens, "whisper_tokenize", ret,
                 result, Flags(ctxs[c]),
                 IF result.kind = "Ok" THEN tokenize_len(ret) ELSE AsUsize(0),
                 <<>>)
    /\ UNCHANGED <<melOk, encOk>>

(***************************************************************************)
(* Language detection.                                                     *)
(***************************************************************************)
\* crate::standalone::get_lang_max_id(), read at line 278
get_lang_max_id == MaxLangId

\* lang_detect, line 278: vec![0.0; get_lang_max_id() as usize + 1]
lang_probs_len == get_lang_max_id + 1

\* lang_detect without its thread-count check
lang_detect_check_nothreads(self, threads) ==
    IF ~self.spectrogram_initialized THEN Err("SpectrogramNotInitialized")
    ELSE Ok

\* lang_detect, lines 272-277
lang_detect_check(self, threads) ==
    IF ~self.spectrogram_initialized THEN Err("SpectrogramNotInitialized")
    ELSE IF threads < 1 THEN Err("InvalidThreadCount")
    ELSE Ok

\* lang_detect trusting the engine's count
lang_detect_result_unchecked(ret, len) ==
    IF ret = -1 THEN Err("UnableToCalculateEvaluation") ELSE Ok

\* lang_detect, lines 287-303: assert_eq! panics on a length mismatch; the
\* abort after it repeats the same comparison
lang_detect_result(ret, len) ==
    IF ret = -1 THEN Err("UnableToCalculateEvaluation")
    ELSE IF AsUsize(ret) # AsUsize(len) THEN Fatal("assert_eq")
    ELSE IF AsUsize(len) # AsUsize(ret) THEN Fatal("abort")
    ELSE Ok

LangDetect(c, offset_ms, threads) ==
    /\ Live(c)
    /\ LET self == ctxs[c]
           pre == lang_detect_check(self, threads)
       IN IF pre.kind # "Ok"
          THEN Return(c, "lang_detect", threads, offset_ms, "none", 0, pre,
                      Flags(self), AsUsize(0), <<>>)
          ELSE \E ret \in Rets :
               LET result == lang_detect_result(ret, lang_probs_len) IN
               Return(c, "lang_detect", threads, offset_ms,
                      "whisper_lang_auto_detect", ret, result, Flags(self),
                      IF result.kind = "Ok" THEN AsUsize(lang_probs_len)
                      ELSE AsUsize(0),
                      IF result.kind = "Ok"
                      THEN [i \in 1 .. lang_probs_len |-> 0] ELSE <<>>)
    /\ UNCHANGED <<melOk, encOk>>

(***************************************************************************)
(* Logits.                                                                 *)
(***************************************************************************)
\* the element the engine's logits buffer holds at index idx: the buffer is
\* the engine's, so each element is named by where it lies
LogitAt(idx) == 100 + idx

\* get_logits gated on the encode instead of on the spectrogram
get_logits_check_encoded(self) ==
    IF ~self.encode_complete THEN Err("SpectrogramNotInitialized")
    ELSE Ok

\* get_logits asking for a decode to have run
get_logits_check_decoded(self) ==
    IF ~self.spectrogram_initialized \/ ~self.decode_once
    THEN Err("SpectrogramNotInitialized")
    ELSE Ok

\* get_logits, lines 380-382
get_logits_check(self) ==
    IF ~self.spectrogram_initialized THEN Err("SpectrogramNotInitialized")
    ELSE Ok

\* get_logits reading the buffer column by column
logits_idx_transposed(i, j, n_vocab) == (j * n_vocab) + i

\* get_logits, line 394
logits_idx(i, j, n_vocab) == (i * n_vocab) + j

\* get_logits, lines 388-399: `for i in 0..n_tokens`, `for j in 0..n_vocab`
\* (both empty when the bound is <= 0); rows and columns are 1-based here
logits_matrix(n_tokens, n_vocab) ==
    [i \in 1 .. n_tokens |->
        [j \in 1 .. n_vocab |-> LogitAt(logits_idx(i - 1, j - 1, n_vocab))]]

\* get_logits, lines 384-387
get_logits_result(isNull) ==
    IF isNull THEN Err("NullPointer") ELSE Ok

\* get_logits(segment); call.len records n_vocab, the width of the rows,
\* and call.out what full_n_tokens(segment) and n_vocab() returned
GetLogits(c, segment) ==
    /\ Live(c)
    /\ LET self == ctxs[c]
           pre == get_logits_check(self)
       IN IF pre.kind # "Ok"
          THEN Return(c, "get_logits", 0, segment, "none", 0, pre,
                      Flags(self), AsUsize(0), <<>>)
          ELSE \E isNull \in BOOLEAN :
               IF get_logits_result(isNull).kind # "Ok"
               THEN Return(c, "get_logits", 0, segment, "whisper_get_logits",
                           NULL, get_logits_result(isNull), Flags(self),
                           AsUsize(0), <<>>)
               ELSE \E n_vocab \in 0 .. MaxVocab,
                       n_tokens \in (0 - 1) .. MaxSegTokens :
                    ReturnOut(c, "get_logits", 0, segment,
                              "whisper_get_logits", 1, Ok, Flags(self),
                              AsUsize(n_vocab),
                              logits_matrix(n_tokens, n_vocab),
                              <<n_tokens, n_vocab>>)
    /\ UNCHANGED <<melOk, encOk>>

(***************************************************************************)
(* Text getters: a nullable C string is checked for null, validated as     *)
(* UTF-8 and copied.                                                       *)
(***************************************************************************)
IsCont(b) == 128 <= b /\ b <= 191

\* core::str::from_utf8, as called by CStr::to_str: well-formed UTF-8 only
RECURSIVE Utf8ValidFrom(_, _)
Utf8ValidFrom(bytes, i) ==
    LET n == Len(bytes)
        b == bytes[i]
        cont(k) == i + k <= n /\ IsCont(bytes[i + k])
        second(lo, hi) == i + 1 <= n /\ lo <= bytes[i + 1] /\ bytes[i + 1] <= hi
    IN IF i > n THEN TRUE
       ELSE IF b < 128 THEN Utf8ValidFrom(bytes, i + 1)
       ELSE IF 194 <= b /\ b <= 223
            THEN cont(1) /\ Utf8ValidFrom(bytes, i + 2)
       ELSE IF b = 224
            THEN second(160, 191) /\ cont(2) /\ Utf8ValidFrom(bytes, i + 3)
       ELSE IF b = 237
            THEN second(128, 159) /\ cont(2) /\ Utf8ValidFrom(bytes, i + 3)
       ELSE IF 225 <= b /\ b <= 239
            THEN cont(1) /\ cont(2) /\ Utf8ValidFrom(bytes, i + 3)
       ELSE IF b = 240
            THEN second(144, 191) /\ cont(2) /\ cont(3)
                 /\ Utf8ValidFrom(bytes, i + 4)
       ELSE IF b = 244
            THEN second(128, 143) /\ cont(2) /\ cont(3)
                 /\ Utf8ValidFrom(bytes, i + 4)
       ELSE IF 241 <= b /\ b <= 243
            THEN cont(1) /\ cont(2) /\ cont(3) /\ Utf8ValidFrom(bytes, i + 4)
       ELSE FALSE

Utf8Valid(bytes) == Utf8ValidFrom(bytes, 1)

\* what the engine may hand back for a `const char *`: null, or the bytes
\* before the terminating NUL
NullPtr == [null |-> TRUE, bytes |-> <<>>]
CStr(bytes) == [null |-> FALSE, bytes |-> bytes]
CStrings ==
    {NullPtr, CStr(<<>>), CStr(<<104, 105>>), CStr(<<195, 169>>),
     CStr(<<195>>), CStr(<<237, 160, 128>>)}

\* the text getters taking the bytes for UTF-8 unseen
text_result_unchecked(ptr) ==
    IF ptr.null THEN Err("NullPointer") ELSE Ok

\* lines 416-421, 630-635, 670-675: null check, to_str()?, to_string();
\* call.out records the bytes the engine's pointer leads to
text_result(ptr) ==
    IF ptr.null THEN Err("NullPointer")
    ELSE IF ~Utf8Valid(ptr.bytes) THEN Err("Utf8Error")
    ELSE Ok

text_value(ptr) ==
    IF text_result(ptr).kind = "Ok" THEN ptr.bytes ELSE <<>>

\* token_to_str(token_id)
TokenToStr(c, token_id) ==
    /\ Live(c)
    /\ \E ptr \in CStrings :
          ReturnOut(c, "token_to_str", 0, token_id, "whisper_token_to_str",
                    IF ptr.null THEN NULL ELSE 1, text_result(ptr),
                    Flags(ctxs[c]), AsUsize(Len(text_value(ptr))),
                    text_value(ptr), ptr.bytes)
    /\ UNCHANGED <<melOk, encOk>>

\* full_get_segment_text(segment)
FullGetSegmentText(c, segment) ==
    /\ Live(c)
    /\ \E ptr \in CStrings :
          ReturnOut(c, "full_get_segment_text", 0, segment,
                    "whisper_full_get_segment_text",
                    IF ptr.null THEN NULL ELSE 1, text_result(ptr),
                    Flags(ctxs[c]), AsUsize(Len(text_value(ptr))),
                    text_value(ptr), ptr.bytes)
    /\ UNCHANGED <<melOk, encOk>>

\* full_get_token_text(segment, token)
FullGetTokenText(c, segment, token) ==
    /\ Live(c)
    /\ \E ptr \in CStrings :
          ReturnOut(c, "full_get_token_text", 0, segment + token,
                    "whisper_full_get_token_text",
                    IF ptr.null THEN NULL ELSE 1, text_result(ptr),
                    Flags(ctxs[c]), AsUsize(Len(text_value(ptr))),
                    text_value(ptr), ptr.bytes)
    /\ UNCHANGED <<melOk, encOk>>

(***************************************************************************)
(* Getters that hand the engine's scalar through: each calls the native    *)
(* function of the same name on the handle and returns its value.          *)
(***************************************************************************)
\* lines 315-362
ModelAttributes ==
    {"n_len", "n_vocab", "n_text_ctx", "n_audio_ctx", "is_multilingual"}

\* lines 429-488
SpecialTokens ==
    {"token_eot", "token_sot", "token_prev", "token_solm", "token_not",
     "token_beg", "token_lang"}

\* lines 495-506
TimingOps == {"print_timings", "reset_timings"}

\* lines 590-616, 649-651, 689-723
ScalarAccessors ==
    {"full_n_segments", "full_get_segment_t0", "full_get_segment_t1",
     "full_n_tokens", "full_get_token_id", "full_get_token_data",
     "full_get_token_prob"}

\* the value a getter returns for the engine's value v: is_multilingual
\* compares with 0 (line 361), the timing calls return nothing, the rest
\* return v itself
getter_value(op, v) ==
    IF op = "is_multilingual" THEN <<IF v # 0 THEN 1 ELSE 0>>
    ELSE IF op \in TimingOps THEN <<>>
    ELSE <<v>>

Getter(c, op, v) ==
    /\ Live(c)
    /\ Return(c, op, 0, 0, op, v, Ok, Flags(ctxs[c]), AsUsize(0),
              getter_value(op, v))
    /\ UNCHANGED <<melOk, encOk>>

ModelAttribute(c, op) == \E v \in GetterRets : Getter(c, op, v)

SpecialToken(c, op) == \E v \in GetterRets : Getter(c, op, v)

Timing(c, op) == Getter(c, op, 0)

\* the accessors gated on the spectrogram as get_logits is
ScalarAccessorGated(c, op) ==
    IF Live(c) /\ get_logits_check(ctxs[c]).kind # "Ok"
    THEN /\ Return(c, op, 0, 0, "none", 0, get_logits_check(ctxs[c]),
                   Flags(ctxs[c]), AsUsize(0), <<>>)
         /\ UNCHANGED <<melOk, encOk>>
    ELSE \E v \in GetterRets : Getter(c, op, v)

ScalarAccessor(c, op) == \E v \in GetterRets : Getter(c, op, v)

(***************************************************************************)
(* The full pipeline.                                                      *)
(***************************************************************************)
\* full taking 8 for an unnamed status
full_result_no_decode(ret) ==
    IF ret = -1 THEN Err("UnableToCalculateSpectrogram")
    ELSE IF ret = 7 THEN Err("FailedToEncode")
    ELSE IF ret = 0 THEN Ok
    ELSE GenericError(ret)

\* full, lines 526-536
full_result(ret) ==
    IF ret = -1 THEN Err("UnableToCalculateSpectrogram")
    ELSE IF ret = 7 THEN Err("FailedToEncode")
    ELSE IF ret = 8 THEN Err("FailedToDecode")
    ELSE IF ret = 0 THEN Ok
    ELSE GenericError(ret)

\* full_parallel with the encode and decode statuses exchanged
full_parallel_result_swapped(ret) ==
    IF ret = -1 THEN Err("UnableToCalculateSpectrogram")
    ELSE IF ret = 7 THEN Err("FailedToDecode")
    ELSE IF ret = 8 THEN Err("FailedToEncode")
    ELSE IF ret = 0 THEN Ok
    ELSE GenericError(ret)

\* full_parallel, lines 569-581
full_parallel_result(ret) ==
    IF ret = -1 THEN Err("UnableToCalculateSpectrogram")
    ELSE IF ret = 7 THEN Err("FailedToEncode")
    ELSE IF ret = 8 THEN Err("FailedToDecode")
    ELSE IF ret = 0 THEN Ok
    ELSE GenericError(ret)

\* the statuses whisper_full and whisper_full_parallel may report
FullRets == Rets \cup {7, 8, 9}

\* full marking the three stages done when the run succeeds
FullAdvancing(c) ==
    /\ Live(c)
    /\ \E ret \in FullRets :
          Return(c, "full", 0, 0, "whisper_full", ret, full_result(ret),
                 IF full_result(ret).kind = "Ok"
                 THEN [spectrogram_initialized |-> TRUE,
                       encode_complete |-> TRUE, decode_once |-> TRUE]
                 ELSE Flags(ctxs[c]),
                 AsUsize(0),
                 IF full_result(ret).kind = "Ok" THEN <<ret>> ELSE <<>>)
    /\ UNCHANGED <<melOk, encOk>>

Full(c) ==
    /\ Live(c)
    /\ \E ret \in FullRets :
          Return(c, "full", 0, 0, "whisper_full", ret, full_result(ret),
                 Flags(ctxs[c]), AsUsize(0),
                 IF full_result(ret).kind = "Ok" THEN <<ret>> ELSE <<>>)
    /\ UNCHANGED <<melOk, encOk>>

\* full_parallel, lines 576-577: the engine returns 0 "on success and also
\* when initializing other contexts fails, causing some audio to not be
\* processed"; there are other contexts only when n_processors > 1
full_parallel_skipped(n_processors) ==
    IF n_processors > 1 THEN BOOLEAN ELSE {FALSE}

\* full_parallel(params, data, n_processors); call.out records whether the
\* engine left part of the audio unprocessed
FullParallel(c, n_processors) ==
    /\ Live(c)
    /\ \E ret \in FullRets, skipped \in full_parallel_skipped(n_processors) :
          ReturnOut(c, "full_parallel", 0, n_processors,
                    "whisper_full_parallel", ret, full_parallel_result(ret),
                    Flags(ctxs[c]), AsUsize(0),
                    IF full_parallel_result(ret).kind = "Ok" THEN <<ret>>
                    ELSE <<>>,
                    <<skipped>>)
    /\ UNCHANGED <<melOk, encOk>>

Next ==
    \/ \E c \in Slots, nul \in BOOLEAN, h \in {NULL} \cup (Handles \ allocated) :
          New(c, nul, h)
    \/ \E c \in Slots, h \in {NULL} \cup (Handles \ allocated) :
          NewFromBuffer(c, h)
    \/ \E c \in Slots : Drop(c)
    \/ \E c \in Slots, t \in Threads : PcmToMel(c, t)
    \/ \E c \in Slots : SetMel(c)
    \/ \E c \in Slots, o \in Offsets, t \in Threads : Encode(c, o, t)
    \/ \E c \in Slots, n \in Indices, t \in Threads : Decode(c, n, t)
    \/ \E c \in Slots, m \in 0 .. MaxTokensArg : Tokenize(c, m)
    \/ \E c \in Slots, o \in Offsets, t \in Threads : LangDetect(c, o, t)
    \/ \E c \in Slots, g \in Indices : GetLogits(c, g)
    \/ \E c \in Slots, k \in Indices : TokenToStr(c, k)
    \/ \E c \in Slots, g \in Indices : FullGetSegmentText(c, g)
    \/ \E c \in Slots, g \in Indices, k \in Indices :
          FullGetTokenText(c, g, k)
    \/ \E c \in Slots, op \in ModelAttributes : ModelAttribute(c, op)
    \/ \E c \in Slots, op \in SpecialTokens : SpecialToken(c, op)
    \/ \E c \in Slots, op \in TimingOps : Timing(c, op)
    \/ \E c \in Slots, op \in ScalarAccessors : ScalarAccessor(c, op)
    \/ \E c \in Slots : Full(c)
    \/ \E c \in Slots, n \in 1 .. MaxProcessors : FullParallel(c, n)

Spec == Init /\ [][Next]_vars

(***************************************************************************)
(* full and full_parallel on one input.  The engine is not part of the     *)
(* wrapper; what it does with an audio is taken from the specification:    *)
(* it is a function of the input and the configuration, a run leaves a     *)
(* result set of segments, and the parallel entry point partitions the     *)
(* audio across n_processors sub-pipelines, the first on the context       *)
(* itself and the others on contexts of their own, which may fail to       *)
(* initialise.  An audio is a sequence of samples, 0 silence and 1 speech. *)
(***************************************************************************)
Samples == {0, 1}

Audios == UNION {[1 .. n -> Samples] : n \in 0 .. MaxSamples}

\* the segments recognised in an audio: one for each maximal stretch of
\* speech, its text one letter for each sample
RECURSIVE SegmentsFrom(_, _, _)
SegmentsFrom(audio, i, text) ==
    LET closed == IF text = <<>> THEN <<>> ELSE <<text>> IN
    IF i > Len(audio) THEN closed
    ELSE IF audio[i] = 0 THEN closed \o SegmentsFrom(audio, i + 1, <<>>)
    ELSE SegmentsFrom(audio, i + 1, Append(text, 97))

whisper_full_segments(audio) == SegmentsFrom(audio, 1, <<>>)

\* the k-th of n partitions of an audio: equal parts, the last one taking
\* what is left over
Partition(audio, n, k) ==
    LET size == Len(audio) \div n IN
    SubSeq(audio, ((k - 1) * size) + 1,
           IF k = n THEN Len(audio) ELSE k * size)

\* the segments of the partitions k .. n, in order; a partition whose
\* sub-pipeline failed to initialise contributes none
RECURSIVE PartitionSegmentsFrom(_, _, _, _)
PartitionSegmentsFrom(audio, n, k, skipped) ==
    IF k > n THEN <<>>
    ELSE (IF k \in skipped THEN <<>>
          ELSE whisper_full_segments(Partition(audio, n, k)))
         \o PartitionSegmentsFrom(audio, n, k + 1, skipped)

whisper_full_parallel_segments(audio, n, skipped) ==
    PartitionSegmentsFrom(audio, n, 1, skipped)

\* the status of the parallel entry point is that of the first partition's
\* run; the engine being a function of its input, it is the status of the
\* whole audio when the first partition is the whole audio
whisper_full_parallel_status(audio, n, status, other) ==
    IF Partition(audio, n, 1) = audio THEN status ELSE other

\* the result set a run leaves in the context: its segments on status 0
result_set(status, segments) ==
    IF status = 0 THEN segments ELSE <<>>

\* what the caller sees of a run: the outcome of full / full_parallel, then
\* full_n_segments and full_get_segment_text of every segment
Outcome(result, segments) ==
    [result |-> result,
     n_segments |-> getter_value("full_n_segments", Len(segments)),
     text |-> [i \in 1 .. Len(segments) |-> text_value(CStr(segments[i]))]]

\* full(params, data), lines 522-537, on the input
full_outcome(audio, status) ==
    Outcome(full_result(status),
            result_set(status, whisper_full_segments(audio)))

\* full_parallel(params, data, n_processors), lines 554-582, on the input
full_parallel_outcome(audio, n, status, other, skipped) ==
    LET ret == whisper_full_parallel_status(audio, n, status, other) IN
    Outcome(full_parallel_result(ret),
            result_set(ret, whisper_full_parallel_segments(audio, n, skipped)))

\* the inputs: an audio, a processor count, the status the engine has for
\* the audio, the status it has for a first partition that is not the
\* whole audio, and the sub-pipelines that fail to initialise
RunInputs ==
    {[NoRuns EXCEPT !.audio = a, !.n_processors = n, !.status = s,
                    !.other = o, !.skipped = k] :
        a \in Audios, n \in 1 .. MaxProcessors, s \in FullRets,
        o \in FullRets, k \in SUBSET (2 .. MaxProcessors)}

InitRuns ==
    /\ InitContexts
    /\ borrows = NoBorrows
    /\ twins = NoTwins
    /\ runs \in {r \in RunInputs :
                    /\ r.skipped \subseteq 2 .. r.n_processors
                    /\ r.n_processors = 1 => r.other = r.status}

RunFull ==
    /\ runs.full = NoOutcome
    /\ runs' = [runs EXCEPT !.full = full_outcome(runs.audio, runs.status)]
    /\ UNCHANGED <<ctxs, allocated, freed, misuse, melOk, encOk, call,
                   running, borrows, twins>>

RunFullParallel ==
    /\ runs.full_parallel = NoOutcome
    /\ runs' = [runs EXCEPT !.full_parallel =
                    full_parallel_outcome(runs.audio, runs.n_processors,
                                          runs.status, runs.other,
                                          runs.skipped)]
    /\ UNCHANGED <<ctxs, allocated, freed, misuse, melOk, encOk, call,
                   running, borrows, twins>>

NextRuns == RunFull \/ RunFullParallel

SpecRuns == InitRuns /\ [][NextRuns]_vars

(***************************************************************************)
(* One context shared by several tasks.  WhisperContext is Send and Sync   *)
(* (lines 733-737), so tasks may hold references to one context and call   *)
(* it at the same time; what the borrow rules allow follows from each      *)
(* method's receiver.  A call begins when the task takes its borrow and    *)
(* ends when the method returns.                                           *)
(***************************************************************************)
\* the methods that take `&mut self`
ExclusiveOps ==
    {"pcm_to_mel", "set_mel", "encode", "decode", "tokenize", "lang_detect",
     "full", "full_parallel"}

\* the methods that take `&self`
SharedOps ==
    {"get_logits", "token_to_str", "full_get_segment_text",
     "full_get_token_text"}
        \cup ModelAttributes \cup SpecialTokens \cup TimingOps
        \cup ScalarAccessors

\* a `&mut` borrow excludes every other borrow, a `&` borrow excludes only
\* a `&mut` borrow
MayCall(op, busy, t) ==
    IF op \in ExclusiveOps
    THEN \A u \in Tasks \ {t} : busy[u] = "idle"
    ELSE \A u \in Tasks \ {t} : busy[u] \notin ExclusiveOps

\* the check a method makes before its native call, for a thread count of 1
method_check(op, self) ==
    CASE op = "pcm_to_mel" -> pcm_to_mel_check(self, 1)
      [] op = "encode" -> encode_check(self, 1)
      [] op = "decode" -> decode_check(self, 1)
      [] op = "lang_detect" -> lang_detect_check(self, 1)
      [] op = "get_logits" -> get_logits_check(self)
      [] OTHER -> Ok

\* the flags a method leaves when the engine returns ret
method_flags(op, self, ret) ==
    CASE op = "pcm_to_mel" -> pcm_to_mel_flags(self, ret)
      [] op = "set_mel" -> set_mel_flags(self, ret)
      [] op = "encode" -> encode_flags(self, ret)
      [] op = "decode" -> decode_flags(self, ret)
      [] OTHER -> Flags(self)

\* the native calls that compute, and so add to the performance statistics
\* that print_timings prints
EngineWork ==
    {"pcm_to_mel", "encode", "decode", "lang_detect", "full", "full_parallel"}

\* the engine's performance statistics after the method's native call:
\* reset_timings (line 505) calls whisper_reset_timings, which clears them
method_stats(op, stats) ==
    IF op = "reset_timings" THEN 0
    ELSE IF op \in EngineWork
    THEN (IF stats < MaxStats THEN stats + 1 ELSE stats)
    ELSE stats

\* what a method leaves of the flags and of the engine's statistics
Effect(op, self, stats, ret) ==
    IF method_check(op, self).kind # "Ok"
    THEN [self |-> Flags(self), stats |-> stats]
    ELSE [self |-> method_flags(op, self, ret),
          stats |-> method_stats(op, stats)]

BeginCall(t, op) ==
    /\ borrows.busy[t] = "idle"
    /\ MayCall(op, borrows.busy, t)
    /\ borrows' = [borrows EXCEPT !.busy[t] = op]
    /\ UNCHANGED <<ctxs, allocated, freed, misuse, melOk, encOk, call,
                   running, runs, twins>>

EndCall(t) ==
    /\ borrows.busy[t] # "idle"
    /\ \E ret \in Rets :
       LET left == Effect(borrows.busy[t], borrows.self, borrows.stats, ret)
       IN borrows' = [self |-> left.self, stats |-> left.stats,
                      busy |-> [borrows.busy EXCEPT ![t] = "idle"]]
    /\ UNCHANGED <<ctxs, allocated, freed, misuse, melOk, encOk, call,
                   running, runs, twins>>

NextShared ==
    \/ \E t \in Tasks, op \in ExclusiveOps \cup SharedOps : BeginCall(t, op)
    \/ \E t \in Tasks : EndCall(t)

SpecShared == Init /\ [][NextShared]_vars

(***************************************************************************)
(* Two contexts that are given the same calls with the same arguments and  *)
(* the same responses of the engine.  The first has been encoded, the      *)
(* second has been decoded as well.                                        *)
(***************************************************************************)
\* the check a method makes before its native call
call_check(op, self, threads) ==
    CASE op = "pcm_to_mel" -> pcm_to_mel_check(self, threads)
      [] op = "encode" -> encode_check(self, threads)
      [] op = "decode" -> decode_check(self, threads)
      [] op = "lang_detect" -> lang_detect_check(self, threads)
      [] op = "get_logits" -> get_logits_check(self)
      [] OTHER -> Ok

\* what the engine may answer to a method's native call: a status, for
\* get_logits whether its pointer is null, for a text getter its C string,
\* for a pass-through getter its value; tokenize's statuses are those for
\* which its set_len is defined
Responses(op) ==
    CASE op \in {"full", "full_parallel"} -> FullRets
      [] op = "get_logits" -> BOOLEAN
      [] op \in {"token_to_str", "full_get_segment_text",
                 "full_get_token_text"} -> CStrings
      [] op = "tokenize" ->
            {r \in Rets :
                tokenize_outcomes(r, MaxTokensArg) = {tokenize_result(r)}}
      [] op \in ExclusiveOps -> Rets
      [] OTHER -> GetterRets

\* the result a method makes of the engine's answer
call_result(op, response) ==
    CASE op = "pcm_to_mel" -> pcm_to_mel_result(response)
      [] op = "set_mel" -> set_mel_result(response)
      [] op = "encode" -> encode_result(response)
      [] op = "decode" -> decode_result(response)
      [] op = "tokenize" -> tokenize_result(response)
      [] op = "lang_detect" -> lang_detect_result(response, lang_probs_len)
      [] op = "get_logits" -> get_logits_result(response)
      [] op = "full" -> full_result(response)
      [] op = "full_parallel" -> full_parallel_result(response)
      [] op \in {"token_to_str", "full_get_segment_text",
                 "full_get_token_text"} -> text_result(response)
      [] OTHER -> Ok

\* the status among the engine's answer, for the flags written on it
call_status(op, response) ==
    IF op \in {"pcm_to_mel", "set_mel", "encode", "decode"} THEN response
    ELSE 0

\* a call on a context with flags self: whether it reached the engine, its
\* result, and the flags it left
Called(op, self, threads, response) ==
    IF call_check(op, self, threads).kind # "Ok"
    THEN [forwarded |-> FALSE, result |-> call_check(op, self, threads),
          flags |-> Flags(self)]
    ELSE [forwarded |-> TRUE, result |-> call_result(op, response),
          flags |-> method_flags(op, self, call_status(op, response))]

\* a context after pcm_to_mel and encode have returned Ok
EncodedFlags ==
    [spectrogram_initialized |-> TRUE, encode_complete |-> TRUE,
     decode_once |-> FALSE]

\* the same context after a decode has returned Ok
DecodedFlags == decode_flags(EncodedFlags, 0)

InitTwins ==
    /\ InitContexts
    /\ runs = NoRuns
    /\ borrows = NoBorrows
    /\ twins = [NoTwins EXCEPT !.a = EncodedFlags, !.b = DecodedFlags]

\* the same call on both contexts; a call that panicked ends the process
TwinCall(op, threads, response) ==
    /\ twins.a_answer.result.kind # "Fatal"
    /\ twins.b_answer.result.kind # "Fatal"
    /\ LET a == Called(op, twins.a, threads, response)
           b == Called(op, twins.b, threads, response)
       IN twins' = [a |-> a.flags, b |-> b.flags, op |-> op,
                    threads |-> threads, response |-> response,
                    a_answer |-> [forwarded |-> a.forwarded,
                                  result |-> a.result],
                    b_answer |-> [forwarded |-> b.forwarded,
                                  result |-> b.result]]
    /\ UNCHANGED <<ctxs, allocated, freed, misuse, melOk, encOk, call,
                   running, runs, borrows>>

NextTwins ==
    \E op \in ExclusiveOps \cup SharedOps, threads \in Threads :
       \E response \in Responses(op) : TwinCall(op, threads, response)

SpecTwins == InitTwins /\ [][NextTwins]_vars

(***************************************************************************)
(* Properties.  `call` is the last call made; call.pre holds the flags the *)
(* context had when the call was made, and Now the flags it has after it.  *)
(***************************************************************************)
Now == Flags(ctxs[call.slot])

Forwarded == call.fn # "none"

MelOps == {"pcm_to_mel", "set_mel"}
StageOps == {"pcm_to_mel", "set_mel", "encode", "decode"}
ThreadOps == {"pcm_to_mel", "encode", "decode", "lang_detect"}
Constructors == {"new", "new_from_buffer"}

\* the last call was a method call on a context that is still there
OnContext == call.op \notin ({"none", "drop"} \cup Constructors)

\* C1: every encode that reaches whisper_encode was preceded by a
\* pcm_to_mel or set_mel that returned Ok on the same context, and every
\* decode that reaches whisper_decode was preceded by an encode that
\* returned Ok on the same context; a call whose stage has not been reached
\* is not forwarded.
C1_StageOrder ==
    /\ (call.op = "encode" /\ Forwarded) => melOk[call.slot]
    /\ (call.op = "decode" /\ Forwarded) => encOk[call.slot]
    /\ (call.op = "encode" /\ ~melOk[call.slot]) => ~Forwarded
    /\ (call.op = "decode" /\ ~encOk[call.slot]) => ~Forwarded

C1_Witness ==
    /\ call.op = "decode"
    /\ call.fn = "whisper_decode"
    /\ melOk[call.slot]
    /\ encOk[call.slot]

\* C2: encode on a context on which no pcm_to_mel or set_mel has returned
\* Ok returns SpectrogramNotInitialized, whatever the offset and the thread
\* count, without calling the engine, and leaves the three flags as they
\* were.
C2_EncodeNotReady ==
    (call.op = "encode" /\ ~melOk[call.slot])
        => /\ call.result = Err("SpectrogramNotInitialized")
           /\ ~Forwarded
           /\ Now = call.pre

C2_Witness ==
    /\ call.op = "encode"
    /\ ~melOk[call.slot]
    /\ call.threads >= 1
    /\ call.arg = MaxOffset
    /\ call.result = Err("SpectrogramNotInitialized")

\* C3: decode on a context on which no encode has returned Ok returns
\* EncodeNotComplete, whatever its arguments and also when a spectrogram is
\* loaded, without calling the engine, and leaves the three flags as they
\* were.
C3_DecodeNotReady ==
    (call.op = "decode" /\ ~encOk[call.slot])
        => /\ call.result = Err("EncodeNotComplete")
           /\ ~Forwarded
           /\ Now = call.pre

C3_Witness ==
    /\ call.op = "decode"
    /\ ~encOk[call.slot]
    /\ melOk[call.slot]
    /\ call.threads >= 1
    /\ call.result = Err("EncodeNotComplete")

\* the gate precondition of a gated operation, on the flags it was called
\* with
GateHolds(op, f) ==
    IF op \in {"encode", "lang_detect"} THEN f.spectrogram_initialized
    ELSE IF op = "decode" THEN f.encode_complete
    ELSE TRUE

GateError(op) ==
    IF op = "decode" THEN Err("EncodeNotComplete")
    ELSE Err("SpectrogramNotInitialized")

\* C4 as stated: with a thread count below 1, pcm_to_mel, encode, decode
\* and lang_detect return InvalidThreadCount without calling the engine, in
\* every gate state.
C4_Original ==
    (call.op \in ThreadOps /\ call.threads < 1)
        => /\ call.result = Err("InvalidThreadCount")
           /\ ~Forwarded

\* C4 as amended: with a thread count below 1, pcm_to_mel, encode, decode
\* and lang_detect return an error without calling the engine and without
\* changing a flag; the error is InvalidThreadCount when the operation's
\* gate precondition holds (always, for pcm_to_mel) and the gate error
\* otherwise.
C4_ThreadCount ==
    (call.op \in ThreadOps /\ call.threads < 1)
        => /\ ~Forwarded
           /\ Now = call.pre
           /\ call.result = IF GateHolds(call.op, call.pre)
                            THEN Err("InvalidThreadCount")
                            ELSE GateError(call.op)

C4_Witness ==
    /\ call.op = "lang_detect"
    /\ call.threads < 1
    /\ call.pre.spectrogram_initialized
    /\ call.result = Err("InvalidThreadCount")

\* C5 as stated: after a pcm_to_mel or set_mel that returned Ok the gate is
\* SpectrogramReady, after an encode that returned Ok it is Encoded, and a
\* call that failed leaves the flags as they were.
C5_Original ==
    /\ (call.op \in MelOps /\ call.result.kind = "Ok")
          => Gate(Now) = "SpectrogramReady"
    /\ (call.op = "encode" /\ call.result.kind = "Ok")
          => Gate(Now) = "Encoded"
    /\ (OnContext /\ call.result.kind # "Ok") => Now = call.pre

\* C5 as amended: a pcm_to_mel or set_mel that returned Ok sets
\* spectrogram_initialized and leaves the other two flags, so the gate is
\* SpectrogramReady when no encode had succeeded before and stays Encoded
\* or Decoded otherwise; an encode that returned Ok sets encode_complete
\* and leaves the other two, so the gate is Encoded when no decode had
\* succeeded before and stays Decoded otherwise; a call that failed leaves
\* the flags as they were.
C5_GateAdvance ==
    /\ (call.op \in MelOps /\ call.result.kind = "Ok")
          => /\ Now = [call.pre EXCEPT !.spectrogram_initialized = TRUE]
             /\ Gate(Now) = IF Gate(call.pre) = "Fresh"
                            THEN "SpectrogramReady" ELSE Gate(call.pre)
    /\ (call.op = "encode" /\ call.result.kind = "Ok")
          => /\ Now = [call.pre EXCEPT !.encode_complete = TRUE]
             /\ Gate(Now) = IF Gate(call.pre) = "SpectrogramReady"
                            THEN "Encoded" ELSE Gate(call.pre)
    /\ (OnContext /\ call.result.kind # "Ok") => Now = call.pre

C5_Witness ==
    /\ call.op = "encode"
    /\ call.result.kind = "Err"
    /\ Forwarded
    /\ Gate(call.pre) = "Decoded"
    /\ Gate(Now) = "Decoded"

\* C6: a context exists only with the non-null handle its constructor got
\* from the engine, a null handle gives InitError and no context; a live
\* context's handle is allocated and not yet freed, no two live contexts
\* share a handle, every allocated handle belongs to a live context, a
\* dropped context was freed exactly once, and the engine is never called
\* with a handle that is not allocated.
C6_HandleLifetime ==
    /\ \A c \in Slots :
          /\ ctxs[c].status = "live"
                => /\ ctxs[c].ctx # NULL
                   /\ ctxs[c].ctx \in allocated
                   /\ freed[c] = 0
          /\ ctxs[c].status = "dropped" => freed[c] = 1
          /\ ctxs[c].status = "unborn" => freed[c] = 0
    /\ \A c, d \in Slots :
          (c # d /\ ctxs[c].status = "live" /\ ctxs[d].status = "live")
             => ctxs[c].ctx # ctxs[d].ctx
    /\ allocated = {ctxs[c].ctx : c \in {d \in Slots : ctxs[d].status = "live"}}
    /\ ~misuse
    /\ (call.op \in Constructors /\ Forwarded /\ call.ret = NULL)
          => /\ call.result = Err("InitError")
             /\ ctxs[call.slot].status # "live"
    /\ (call.op \in Constructors /\ call.result.kind = "Ok")
          => /\ Forwarded
             /\ ctxs[call.slot].status = "live"
             /\ ctxs[call.slot].ctx = call.ret
    /\ (call.op \in Constructors /\ call.result.kind # "Ok")
          => ctxs[call.slot].status # "live"
    /\ call.op = "drop"
          => /\ call.fn = "whisper_free"
             /\ ctxs[call.slot].status = "dropped"

C6_Witness ==
    /\ call.op = "drop"
    /\ call.pre.encode_complete
    /\ ctxs[call.slot].status = "dropped"
    /\ freed[call.slot] = 1
    /\ allocated = {}

\* C7: lang_detect and get_logits return SpectrogramNotInitialized without
\* calling the engine when no pcm_to_mel or set_mel has returned Ok on the
\* context, and never return it once the gate is SpectrogramReady or later.
C7_SpectrogramGate ==
    (call.op \in {"lang_detect", "get_logits"})
        => /\ ~melOk[call.slot]
                => /\ call.result = Err("SpectrogramNotInitialized")
                   /\ ~Forwarded
           /\ Gate(call.pre) # "Fresh"
                => call.result # Err("SpectrogramNotInitialized")

C7_Witness ==
    /\ call.op = "get_logits"
    /\ Gate(call.pre) = "SpectrogramReady"
    /\ call.fn = "whisper_get_logits"
    /\ call.result.kind = "Ok"

C9_OnlyLangDetectFatal ==
    /\ call.result.kind \in {"none", "Ok", "Err", "Fatal"}
    /\ call.result.kind = "Fatal" => call.op = "lang_detect"

\* the error a stage operation names for the engine's -1
NamedFailure(op) ==
    IF op = "pcm_to_mel" THEN Err("UnableToCalculateSpectrogram")
    ELSE IF op = "set_mel" THEN Err("InvalidMelBands")
    ELSE Err("UnableToCalculateEvaluation")

\* C10: a stage operation that reaches the engine answers Ok for status 0,
\* its named failure for -1 and GenericError(r) carrying r for every other
\* status r; a flag changes only when the status is 0.
C10_StatusClassification ==
    (call.op \in StageOps)
        => /\ Forwarded
                => call.result = IF call.ret = 0 THEN Ok
                                 ELSE IF call.ret = -1
                                 THEN NamedFailure(call.op)
                                 ELSE GenericError(call.ret)
           /\ Now # call.pre => (Forwarded /\ call.ret = 0)

C10_Witness ==
    /\ call.op = "set_mel"
    /\ call.ret = -2
    /\ call.result = GenericError(-2)
    /\ Now = call.pre

\* C11: full and full_parallel turn the engine's status into exactly one
\* outcome: -1 is UnableToCalculateSpectrogram, 7 is FailedToEncode, 8 is
\* FailedToDecode, 0 is Ok and any other r is GenericError(r); full_parallel
\* returns Ok on status 0 also when the engine left part of the audio
\* unprocessed, and no outcome of it tells the two apart.
C11_FullStatus ==
    call.op \in {"full", "full_parallel"} =>
        /\ Forwarded
        /\ call.ret = 0 - 1 <=> call.result = Err("UnableToCalculateSpectrogram")
        /\ call.ret = 7 <=> call.result = Err("FailedToEncode")
        /\ call.ret = 8 <=> call.result = Err("FailedToDecode")
        /\ call.ret = 0 <=> call.result = Ok
        /\ call.ret \notin {0 - 1, 0, 7, 8} <=>
               call.result = GenericError(call.ret)
        /\ (call.op = "full_parallel" /\ call.ret = 0) =>
               /\ call.result = Ok
               /\ call.value = <<0>>

C11_Witness ==
    /\ call.op = "full_parallel"
    /\ call.ret = 0
    /\ call.out = <<TRUE>>
    /\ call.result = Ok

FlagStates ==
    [spectrogram_initialized : BOOLEAN, encode_complete : BOOLEAN,
     decode_once : BOOLEAN]

\* the method can change a gate flag or the engine's state
Writes(op) ==
    \E self \in FlagStates, stats \in 0 .. MaxStats, ret \in Rets :
        Effect(op, self, stats, ret) # [self |-> self, stats |-> stats]

\* C13: on one context no two of pcm_to_mel, set_mel, encode, decode, full
\* and full_parallel are in progress at once, and none of them is in
\* progress together with any other call; a call that can change a gate
\* flag or the engine's state is in progress alone, so the calls that
\* overlap change neither.
C13_ExclusiveWriters ==
    \A t \in Tasks : \A u \in Tasks \ {t} :
        (borrows.busy[t] # "idle" /\ borrows.busy[u] # "idle") =>
            /\ borrows.busy[t] \notin {"pcm_to_mel", "set_mel", "encode",
                                       "decode", "full", "full_parallel"}
            /\ ~Writes(borrows.busy[t])

\* C14: on a context whose encode has returned Ok, every decode with a
\* thread count of at least 1 reaches whisper_decode, whatever earlier
\* decodes did; a decode that returns Ok sets decode_once and nothing else
\* (the gate is Decoded), and a decode that fails leaves every flag as it
\* was, so it does not stand in the way of a later decode.
C14_DecodeRepeats ==
    call.op = "decode" =>
        /\ (encOk[call.slot] /\ call.threads >= 1) => Forwarded
        /\ call.result = Ok =>
               /\ Now = [call.pre EXCEPT !.decode_once = TRUE]
               /\ Gate(Now) = "Decoded"
        /\ call.result # Ok => Now = call.pre

C14_Witness ==
    /\ call.op = "decode"
    /\ call.fn = "whisper_decode"
    /\ call.pre.decode_once
    /\ call.result = GenericError(1)

\* the errors a method returns for a stage not reached
GateErrors == {Err("SpectrogramNotInitialized"), Err("EncodeNotComplete")}

\* C15: tokenize reaches whisper_tokenize in every gate state, never
\* returns SpectrogramNotInitialized, EncodeNotComplete or
\* InvalidThreadCount, returns InvalidText exactly when the engine returns
\* -1, and leaves the three flags as they were.
C15_TokenizeUngated ==
    call.op = "tokenize" =>
        /\ Forwarded
        /\ call.result \notin GateErrors
        /\ call.result # Err("InvalidThreadCount")
        /\ call.result = Err("InvalidText") <=> call.ret = 0 - 1
        /\ Now = call.pre

C15_Witness ==
    /\ call.op = "tokenize"
    /\ Gate(call.pre) = "Fresh"
    /\ call.fn = "whisper_tokenize"
    /\ call.ret = 1
    /\ call.result = Ok

\* C16: whenever tokenize returns Ok, the length of the vector it returns
\* is the count the engine reported and lies between 0 and max_tokens, for
\* every status of the engine other than -1.
C16_TokenizeLength ==
    (call.op = "tokenize" /\ call.result = Ok) =>
        /\ call.len = AsUsize(call.ret)
        /\ UsizeLeq(AsUsize(0), call.len)
        /\ UsizeLeq(call.len, AsUsize(call.arg))

\* C17: get_logits returns NullPointer, with nothing read, when the
\* engine's logits pointer is null; otherwise it returns a matrix of
\* full_n_tokens(segment) rows (none when that count is <= 0) of n_vocab
\* columns each, whose element in row i and column j (from 0) is the
\* buffer's element at i * n_vocab + j, an index within
\* 0 .. n_tokens * n_vocab - 1.
C17_LogitsMatrix ==
    (call.op = "get_logits" /\ Forwarded) =>
        IF call.ret = NULL
        THEN /\ call.result = Err("NullPointer")
             /\ call.value = <<>>
        ELSE LET n_tokens == call.out[1]
                 n_vocab == call.out[2]
                 rows == call.value
             IN /\ call.result = Ok
                /\ Len(rows) = (IF n_tokens <= 0 THEN 0 ELSE n_tokens)
                /\ \A i \in 1 .. Len(rows) :
                      /\ Len(rows[i]) = n_vocab
                      /\ \A j \in 1 .. n_vocab :
                            /\ rows[i][j] = LogitAt(((i - 1) * n_vocab) + (j - 1))
                            /\ \E idx \in 0 .. (n_tokens * n_vocab) - 1 :
                                  rows[i][j] = LogitAt(idx)

C17_Witness ==
    /\ call.op = "get_logits"
    /\ call.result = Ok
    /\ call.out = <<2, 2>>
    /\ call.value = <<(<<100, 101>>), (<<102, 103>>)>>

TextOps == {"token_to_str", "full_get_segment_text", "full_get_token_text"}

\* the byte strings among the engine's answers that are UTF-8: the empty
\* string, "hi" and U+00E9; the others are a lead byte cut short and an
\* encoded surrogate
WellFormedTexts == {<<>>, <<104, 105>>, <<195, 169>>}

\* C18: token_to_str, full_get_segment_text and full_get_token_text return
\* NullPointer, with no text read, when the engine returns a null pointer;
\* return Utf8Error, an error of its own, when the bytes are not UTF-8;
\* and otherwise return a copy of the text.  None changes a flag.
C18_TextGetters ==
    call.op \in TextOps =>
        /\ Forwarded
        /\ call.ret = NULL =>
               /\ call.result = Err("NullPointer")
               /\ call.value = <<>>
        /\ (call.ret # NULL /\ call.out \notin WellFormedTexts) =>
               /\ call.result = Err("Utf8Error")
               /\ call.result # Err("NullPointer")
        /\ (call.ret # NULL /\ call.out \in WellFormedTexts) =>
               /\ call.result = Ok
               /\ call.value = call.out
               /\ call.len = AsUsize(Len(call.out))
        /\ Now = call.pre

C18_Witness ==
    /\ call.op = "full_get_token_text"
    /\ call.ret # NULL
    /\ call.out = <<237, 160, 128>>
    /\ call.result = Err("Utf8Error")

ResultAccessors ==
    ScalarAccessors \cup {"full_get_segment_text", "full_get_token_text"}

\* C19: full_n_segments, full_get_segment_t0, full_get_segment_t1,
\* full_get_segment_text, full_n_tokens, full_get_token_text,
\* full_get_token_id, full_get_token_data and full_get_token_prob have no
\* gate precondition: in every gate state they reach the engine, do not
\* return SpectrogramNotInitialized or EncodeNotComplete, and leave the
\* three flags as they were.
C19_AccessorsUngated ==
    call.op \in ResultAccessors =>
        /\ Forwarded
        /\ call.fn \in {call.op, "whisper_" \o call.op}
        /\ call.result \notin GateErrors
        /\ Now = call.pre

C19_Witness ==
    /\ call.op = "full_n_tokens"
    /\ Gate(call.pre) = "Fresh"
    /\ call.fn = "full_n_tokens"
    /\ call.result = Ok

\* C20: in every reachable state the flags of a context form a chain,
\* decode_once implying encode_complete and encode_complete implying
\* spectrogram_initialized, so its gate is Fresh, SpectrogramReady, Encoded
\* or Decoded with every earlier flag set; a context just constructed has
\* all three flags false.
C20_FlagChain ==
    /\ \A c \in Slots :
          /\ ctxs[c].decode_once => ctxs[c].encode_complete
          /\ ctxs[c].encode_complete => ctxs[c].spectrogram_initialized
    /\ (call.op \in Constructors /\ call.result = Ok) =>
          /\ ctxs[call.slot].status = "live"
          /\ Now = NoFlags

C20_Witness ==
    \E c \in Slots :
        /\ ctxs[c].status = "live"
        /\ ctxs[c].decode_once
        /\ ctxs[c].encode_complete
        /\ ctxs[c].spectrogram_initialized
        /\ call.op = "decode"

\* C21: full and full_parallel leave the three flags as they were, whatever
\* the engine returns.  So on a context on which no pcm_to_mel or set_mel
\* has returned Ok, full runs or not, encode, lang_detect and get_logits
\* return SpectrogramNotInitialized, and on one on which no encode has
\* returned Ok decode returns EncodeNotComplete, none reaching the engine.
C21_FullLeavesGate ==
    /\ call.op \in {"full", "full_parallel"} =>
          /\ Forwarded
          /\ Now = call.pre
    /\ (call.op \in {"encode", "lang_detect", "get_logits"}
           /\ ~melOk[call.slot]) =>
          /\ call.result = Err("SpectrogramNotInitialized")
          /\ ~Forwarded
    /\ (call.op = "decode" /\ ~encOk[call.slot]) =>
          /\ call.result = Err("EncodeNotComplete")
          /\ ~Forwarded

C21_Witness ==
    /\ call.op = "full_parallel"
    /\ call.result = Ok
    /\ ~melOk[call.slot]
    /\ Gate(call.pre) = "Fresh"
    /\ Gate(Now) = "Fresh"

\* C22: a pcm_to_mel or set_mel, returning Ok or not, leaves
\* encode_complete and decode_once as they were and never clears
\* spectrogram_initialized.  So a context whose encode has returned Ok
\* keeps encode_complete, and one whose pcm_to_mel or set_mel has returned
\* Ok keeps spectrogram_initialized, whatever is loaded afterwards, and a
\* decode with a thread count of at least 1 still reaches the engine.
C22_ReloadKeepsStages ==
    /\ call.op \in MelOps =>
          /\ Now.encode_complete = call.pre.encode_complete
          /\ Now.decode_once = call.pre.decode_once
          /\ call.pre.spectrogram_initialized => Now.spectrogram_initialized
    /\ \A c \in Slots :
          ctxs[c].status = "live" =>
             /\ encOk[c] => ctxs[c].encode_complete
             /\ melOk[c] => ctxs[c].spectrogram_initialized
    /\ (call.op = "decode" /\ encOk[call.slot] /\ call.threads >= 1
           /\ call.pre.encode_complete) => Forwarded

C22_Witness ==
    /\ call.op = "set_mel"
    /\ call.result = Ok
    /\ encOk[call.slot]
    /\ Gate(call.pre) = "Decoded"
    /\ Gate(Now) = "Decoded"

GatedThreadOps == {"encode", "decode", "lang_detect"}

\* C23: encode, decode and lang_detect test the gate before the thread
\* count: with the gate not reached and a thread count below 1 the error
\* is the gate error, SpectrogramNotInitialized for encode and lang_detect
\* and EncodeNotComplete for decode, and these three return
\* InvalidThreadCount only when their gate precondition holds.
C23_GateBeforeThreads ==
    call.op \in GatedThreadOps =>
        /\ (~GateHolds(call.op, call.pre) /\ call.threads < 1) =>
               /\ call.result = GateError(call.op)
               /\ ~Forwarded
        /\ call.result = Err("InvalidThreadCount") =>
               /\ GateHolds(call.op, call.pre)
               /\ call.threads < 1
        /\ call.result = Err("SpectrogramNotInitialized") =>
               call.op \in {"encode", "lang_detect"}
        /\ call.result = Err("EncodeNotComplete") => call.op = "decode"

C23_Witness ==
    /\ call.op = "decode"
    /\ call.threads = 0
    /\ ~call.pre.encode_complete
    /\ call.result = Err("EncodeNotComplete")

\* C24: decode_once is written and never read: two contexts that differ
\* only in decode_once, one encoded and one decoded as well, and that are
\* given the same calls with the same responses of the engine, answer
\* every call alike, reaching the engine or not together and returning the
\* same result, and keep differing in decode_once at most; get_logits
\* reaches the engine on the context on which no decode has run, its
\* spectrogram being loaded.
C24_DecodeOnceUnread ==
    /\ twins.a_answer = twins.b_answer
    /\ twins.a.spectrogram_initialized = twins.b.spectrogram_initialized
    /\ twins.a.encode_complete = twins.b.encode_complete
    /\ (twins.op = "get_logits" /\ twins.a.spectrogram_initialized) =>
          twins.a_answer.forwarded

C24_Witness ==
    /\ twins.op = "get_logits"
    /\ ~twins.a.decode_once
    /\ twins.b.decode_once
    /\ twins.a_answer.forwarded
    /\ twins.b_answer.forwarded
    /\ twins.a_answer.result = Ok

====
